---- MODULE Spec2Model ----
(***************************************************************************)
(* roproxy-lite: the proxy pool (load, filter, sort), the proxy selector,  *)
(* the dialer factory and the retry executor of src/main.go, as a state    *)
(* machine.  Strings that the code only compares for emptiness or equality *)
(* are TLA+ strings; the request URI, which the code slices and splits, is *)
(* a sequence of one-character strings.                                    *)
(***************************************************************************)
EXTENDS Integers, Sequences, FiniteSets, TLC

VARIABLES
    mainPc,     \* position of main(): "env", "load", "serve"
    retries,    \* var retries (main.go:21), possibly overwritten from RETRIES
    proxies,    \* var proxies []Proxy (main.go:23), the pool
    pc,         \* position of the request handler goroutine
    uri,        \* ctx.RequestURI() of the request being handled
    attempt,    \* argument of the current makeRequest invocation
    response,   \* *fasthttp.Response returned by makeRequest
    ctx,        \* what requestHandler wrote to ctx (status, origin)
    log,        \* one record per makeRequest invocation that got past the retry guard
    fetch,      \* the last run of loadProxiesFromGeoNode: its outcome, the directory
                \* data it parsed, the pool it found, the number of runs so far
    auth,       \* the KEY of the environment and the PROXYKEY header of the request
    dial        \* one call of httpConnectDialer.Dial

vars == <<mainPc, retries, proxies, pc, uri, attempt, response, ctx, log,
          fetch, auth, dial>>

-----------------------------------------------------------------------------
(* Bounds of the model *)

MaxDirectory == 2       \* entries in one directory answer
MaxProtocols == 2       \* protocols one directory entry lists
MaxURI == 4             \* characters of a request URI
MaxEnvRetries == 2      \* largest integer given in RETRIES
NegEnvRetries == 2      \* RETRIES as low as -NegEnvRetries
MaxLine == 4            \* characters of the proxy's status line
MaxHeaderLines == 2     \* header lines the proxy sends before the blank line

(* Program constants *)

DefaultRetries == 3     \* var retries = 3
BaseDelay == 1          \* time.Second, in seconds
MinUpTime == 90         \* proxy.UpTime > 90
MaxLatency == 1000      \* proxy.Latency < 1000
StatusOK == 200         \* resp.StatusCode() != 200
StatusBadRequest == 400 \* ctx.Error(..., 400)
StatusBadGateway == 502 \* resp.SetStatusCode(502)

-----------------------------------------------------------------------------
(* Sequence helpers *)

Range(s) == {s[i] : i \in 1..Len(s)}

SeqsUpTo(S, n) == UNION {[1..k -> S] : k \in 0..n}

NoDup(s) == \A i, j \in 1..Len(s) : i # j => s[i] # s[j]

-----------------------------------------------------------------------------
(* Proxy records: type Proxy.  The informational fields (ID, ASN, Country,
   City, ISP, Speed) are read by no decision of the program and are left out. *)

ProtocolNames == {"http", "https", "socks4", "socks5", "ftp"}

RecognizedProtocols == {"socks4", "socks5", "https", "http"}

MkProxy(ip, port, protocols, upTime, latency) ==
    [IP |-> ip, Port |-> port, Protocols |-> protocols,
     UpTime |-> upTime, Latency |-> latency]

\* func hasValidProtocol(protocols []string) bool
hasValidProtocol(protocols) ==
    \E i \in 1..Len(protocols) : protocols[i] \in RecognizedProtocols

ProtocolPriority(protocol) ==
    CASE protocol = "socks5" -> 4
      [] protocol = "socks4" -> 3
      [] protocol = "https" -> 2
      [] protocol = "http" -> 1
      [] OTHER -> 0

RECURSIVE FirstRecognizedPriority(_)
\* the loop of getProxyPriority: the first protocol of the list that hits a
\* case of the switch decides; an unrecognized one is skipped
FirstRecognizedPriority(protocols) ==
    IF protocols = <<>> THEN 0
    ELSE IF ProtocolPriority(Head(protocols)) > 0
         THEN ProtocolPriority(Head(protocols))
         ELSE FirstRecognizedPriority(Tail(protocols))

\* func getProxyPriority(proxy *Proxy) int
getProxyPriority(proxy) == FirstRecognizedPriority(proxy.Protocols)

\* a swap that loses the element at i
Swap_Overwrite(s, i, j) == [s EXCEPT ![i] = s[j]]

\* sorted[i], sorted[j] = sorted[j], sorted[i]
Swap(s, i, j) == [s EXCEPT ![i] = s[j], ![j] = s[i]]

RECURSIVE SortInner(_, _, _)
\* for j := i + 1; j < len(sorted); j++ (1-based here)
SortInner(sorted, i, j) ==
    IF j > Len(sorted) THEN sorted
    ELSE IF getProxyPriority(sorted[j]) > getProxyPriority(sorted[i])
         THEN SortInner(Swap(sorted, i, j), i, j + 1)
         ELSE SortInner(sorted, i, j + 1)

RECURSIVE SortOuter(_, _)
\* for i := 0; i < len(sorted)-1; i++ (1-based here)
SortOuter(sorted, i) ==
    IF i > Len(sorted) - 1 THEN sorted
    ELSE SortOuter(SortInner(sorted, i, i + 1), i + 1)

\* func sortProxiesByPriority(proxies []Proxy) []Proxy
sortProxiesByPriority(ps) == SortOuter(ps, 1)

\* the condition of the filter loop in loadProxiesFromGeoNode
IsGoodProxy(proxy) ==
    /\ proxy.UpTime > MinUpTime
    /\ hasValidProtocol(proxy.Protocols)
    /\ proxy.Latency < MaxLatency

RECURSIVE goodProxies(_)
\* for _, proxy := range geoNodeResponse.Data { if ... { append(goodProxies, proxy) } }
goodProxies(data) ==
    IF data = <<>> THEN <<>>
    ELSE IF IsGoodProxy(Head(data))
         THEN <<Head(data)>> \o goodProxies(Tail(data))
         ELSE goodProxies(Tail(data))

\* the pool a directory answer with these entries is turned into
LoadedPool(data) == sortProxiesByPriority(goodProxies(data))

\* func loadDefaultProxies()
DefaultProxies ==
    << MkProxy("104.16.202.9", "80", <<"http">>, 100, 0),
       MkProxy("104.21.237.193", "80", <<"http">>, 100, 0) >>

-----------------------------------------------------------------------------
(* Proxy selector *)

Max(a, b) == IF a >= b THEN a ELSE b

\* func getBestProxy() *Proxy: the indices (1-based) rand.Intn can pick; 0 is nil
getBestProxy(pool) ==
    IF Len(pool) = 0 THEN {0}
    ELSE IF Len(pool) > 3
         THEN 1..Max(Len(pool) \div 4, 1)
         ELSE 1..Len(pool)

(* Dialer factory *)

RECURSIVE FirstSocks(_)
\* the loop of getProxyDialer: the first socks5 or socks4 of the list decides
FirstSocks(protocols) ==
    IF protocols = <<>> THEN "connect"
    ELSE IF Head(protocols) = "socks5" THEN "socks5"
    ELSE IF Head(protocols) = "socks4" THEN "socks4"
    ELSE FirstSocks(Tail(protocols))

\* func getProxyDialer(p *Proxy) (proxy.Dialer, error): the dialer's kind
getProxyDialer(p) == FirstSocks(p.Protocols)

\* proxy.SOCKS5 and proxy.SOCKS4 return (Dialer, error); the httpConnectDialer
\* is returned with a nil error
DialerMayFail(kind) == kind \in {"socks5", "socks4"}

-----------------------------------------------------------------------------
(* Request executor: the decisions of makeRequest *)

\* the retry guard letting one more invocation through
Exhausted_OffByOne(n, r) == n > r + 1

\* the retry guard letting two more invocations through
Exhausted_OffByTwo(n, r) == n > r + 2

\* if attempt > retries
Exhausted(n, r) == n > r

\* useProxy without the attempt > 1 condition
UseProxy_AnyAttempt(n, pool) == Len(pool) > 0

\* useProxy only from the third attempt on
UseProxy_FromThird(n, pool) == n > 2 /\ Len(pool) > 0

\* useProxy := attempt > 1 && len(proxies) > 0
UseProxy(n, pool) == n > 1 /\ Len(pool) > 0

\* the error check never taken
Failed_IgnoresError(res) == FALSE

\* a 5xx answer taken for a failure
Failed_On5xx(res) == res.err \/ res.status >= 500

\* if err != nil, on the result of client.Do / proxyClient.Do
Failed(res) == res.err

\* if attempt < retries { time.Sleep(time.Duration(attempt) * time.Second) }
Backoff(n, r) == IF n < r THEN n * BaseDelay ELSE 0

\* return makeRequest(ctx, attempt+1)
NextAttempt(n) == n + 1

\* what client.Do / proxyClient.Do can come back with: a transport error, or
\* a response carrying any HTTP status
UpstreamStatuses == {200, 404, 500}

CallResults ==
    {[err |-> TRUE, status |-> 0]} \cup
    {[err |-> FALSE, status |-> s] : s \in UpstreamStatuses}

(* Request URI handling of requestHandler *)

URIChars == {"/", "a"}

\* fasthttp hands the handler a URI that starts with "/"
URIs == {<<"/">> \o s : s \in SeqsUpTo(URIChars, MaxURI - 1)}

\* path := string(ctx.RequestURI())[1:]
PathOf(u) == Tail(u)

FirstSlash(path) ==
    IF \E k \in 1..Len(path) : path[k] = "/"
    THEN CHOOSE k \in 1..Len(path) :
            path[k] = "/" /\ \A m \in 1..(k - 1) : path[m] # "/"
    ELSE 0

\* strings.SplitN(path, "/", 2)
SplitN2(path) ==
    IF FirstSlash(path) = 0 THEN <<path>>
    ELSE << SubSeq(path, 1, FirstSlash(path) - 1),
            SubSeq(path, FirstSlash(path) + 1, Len(path)) >>

\* the two checks of requestHandler that end in ctx.Error(..., 400)
Rejected(u) == PathOf(u) = <<>> \/ Len(SplitN2(PathOf(u))) < 2

-----------------------------------------------------------------------------
(* Inputs *)

\* RETRIES: unset, not a number, or an integer
EnvRetries ==
    {[kind |-> "unset", val |-> 0], [kind |-> "text", val |-> 0]} \cup
    {[kind |-> "int", val |-> n] : n \in (0 - NegEnvRetries)..MaxEnvRetries}

ProtocolLists == {s \in SeqsUpTo(ProtocolNames, MaxProtocols) : NoDup(s)}

\* what json.Unmarshal can make of one directory entry: any protocol list, and
\* missing or poor fields (a missing field is the zero value)
DirectoryEntries ==
    {MkProxy("10.0.0.1", "1080", pl, 100, 10) : pl \in ProtocolLists} \cup
    { MkProxy("", "1080", <<"socks5">>, 100, 10),
      MkProxy("10.0.0.1", "", <<"socks5">>, 100, 10),
      MkProxy("10.0.0.1", "1080", <<"socks5">>, 90, 10),
      MkProxy("10.0.0.1", "1080", <<"socks5">>, 100, 1000) }

Directories == SeqsUpTo(DirectoryEntries, MaxDirectory)

\* the entries the executor is exercised with
ExecEntries ==
    { MkProxy("10.0.0.1", "1080", <<"socks5">>, 100, 10),
      MkProxy("10.0.0.2", "8080", <<"http">>, 100, 10) }

ExecDirectories == SeqsUpTo(ExecEntries, MaxDirectory)

-----------------------------------------------------------------------------
(* State *)

NoResponse == [status |-> 0, origin |-> "none", attempt |-> 0]

\* no load has run yet
NoFetch == [outcome |-> "none", data |-> <<>>, before |-> <<>>, loads |-> 0]

Fetched(outcome, data) ==
    [outcome |-> outcome, data |-> data, before |-> proxies,
     loads |-> fetch.loads + 1]

\* KEY in the environment ("" is unset); main reads PORT, TIMEOUT and RETRIES only
Keys == {"", "k1"}

\* PROXYKEY on a request ("" is absent); requestHandler reads no request header
Headers == {"", "k1", "k2"}

\* Dial has not been called
NoDial ==
    [pc |-> "idle", conn |-> "none", ret |-> "none", status |-> "unread",
     line |-> <<>>, failed |-> "none", blank |-> FALSE, headers |-> 0]

\* a failed load keeping the pool it found
PoolOnFailure_KeepOld(old) == old

\* a failed load leaving no pool
PoolOnFailure_Empty(old) == <<>>

\* the three failure paths of loadProxiesFromGeoNode: loadDefaultProxies(); return
PoolOnFailure(old) == DefaultProxies

\* the guard of the load, opened to a running server
LoadEnabled_WhileServing == mainPc \in {"load", "serve"}

\* main calls loadProxiesFromGeoNode() once, before ListenAndServe
LoadEnabled == mainPc = "load"

Init ==
    /\ mainPc = "env"
    /\ retries = DefaultRetries
    /\ proxies = <<>>
    /\ pc = "idle"
    /\ uri = <<>>
    /\ attempt = 0
    /\ response = NoResponse
    /\ ctx = NoResponse
    /\ log = <<>>
    /\ fetch = NoFetch
    /\ auth \in {[key |-> k, header |-> ""] : k \in Keys}
    /\ dial = NoDial

handlerVars == <<pc, uri, attempt, response, ctx, log>>

\* main, the RETRIES block: if envRetries != "" { if r, err := Atoi; err == nil { retries = r } }
ReadEnv ==
    /\ mainPc = "env"
    /\ \E e \in EnvRetries :
          retries' = IF e.kind = "int" THEN e.val ELSE retries
    /\ mainPc' = "load"
    /\ UNCHANGED <<proxies, handlerVars, fetch, auth, dial>>

\* loadProxiesFromGeoNode, apiClient.Do fails
LoadConnectError ==
    /\ LoadEnabled
    /\ proxies' = PoolOnFailure(proxies)
    /\ fetch' = Fetched("connectError", <<>>)
    /\ mainPc' = "serve"
    /\ UNCHANGED <<retries, handlerVars, auth, dial>>

\* loadProxiesFromGeoNode, resp.StatusCode() != 200
LoadBadStatus ==
    /\ LoadEnabled
    /\ \E status \in {404, 500} :
          /\ status # StatusOK
          /\ proxies' = PoolOnFailure(proxies)
    /\ fetch' = Fetched("badStatus", <<>>)
    /\ mainPc' = "serve"
    /\ UNCHANGED <<retries, handlerVars, auth, dial>>

\* loadProxiesFromGeoNode, json.Unmarshal fails
LoadBadJSON ==
    /\ LoadEnabled
    /\ proxies' = PoolOnFailure(proxies)
    /\ fetch' = Fetched("badJSON", <<>>)
    /\ mainPc' = "serve"
    /\ UNCHANGED <<retries, handlerVars, auth, dial>>

\* loadProxiesFromGeoNode, the directory answered 200 with a JSON body
LoadOK(dirs) ==
    /\ LoadEnabled
    /\ \E data \in dirs :
          /\ proxies' = LoadedPool(data)
          /\ fetch' = Fetched("ok", data)
    /\ mainPc' = "serve"
    /\ UNCHANGED <<retries, handlerVars, auth, dial>>

\* func loadProxiesFromGeoNode(), called once by main before ListenAndServe
loadProxiesFromGeoNode(dirs) ==
    \/ LoadConnectError
    \/ LoadBadStatus
    \/ LoadBadJSON
    \/ LoadOK(dirs)

-----------------------------------------------------------------------------
(* Request handling.  One handler goroutine is followed; handlers share
   nothing but the pool, which no handler writes. *)

Entry(n, useProxy, proxy, dialer, outcome, status, slept) ==
    [attempt |-> n, useProxy |-> useProxy, proxy |-> proxy, dialer |-> dialer,
     outcome |-> outcome, status |-> status, slept |-> slept]

\* func requestHandler, up to the call makeRequest(ctx, 1)
RequestHandler ==
    /\ mainPc = "serve"
    /\ pc = "idle"
    /\ \E h \in Headers : auth' = [auth EXCEPT !.header = h]
    /\ \E u \in URIs :
          /\ uri' = u
          /\ IF Rejected(u)
             THEN /\ ctx' = [status |-> StatusBadRequest, origin |-> "handler",
                             attempt |-> 0]
                  /\ pc' = "done"
                  /\ attempt' = attempt
             ELSE /\ ctx' = ctx
                  /\ pc' = "makeRequest"
                  /\ attempt' = 1
    /\ UNCHANGED <<mainPc, retries, proxies, fetch, dial, response, log>>

\* makeRequest, attempt > retries: the synthesized 502
MakeRequestExhausted ==
    /\ pc = "makeRequest"
    /\ Exhausted(attempt, retries)
    /\ response' = [status |-> StatusBadGateway, origin |-> "synthesized",
                    attempt |-> attempt]
    /\ pc' = "returned"
    /\ UNCHANGED <<mainPc, retries, proxies, fetch, dial, auth, uri, attempt, ctx, log>>

\* makeRequest, getProxyDialer returns an error: the next invocation follows at once
MakeRequestDialerError ==
    /\ pc = "makeRequest"
    /\ ~Exhausted(attempt, retries)
    /\ UseProxy(attempt, proxies)
    /\ \E p \in getBestProxy(proxies) :
          /\ p # 0
          /\ DialerMayFail(getProxyDialer(proxies[p]))
          /\ log' = Append(log, Entry(attempt, TRUE, p, "none", "dialerError", 0, 0))
    /\ attempt' = NextAttempt(attempt)
    /\ UNCHANGED <<mainPc, retries, proxies, fetch, dial, auth, pc, uri, response, ctx>>

\* the transport of one invocation: the proxy's dialer when useProxy && proxy != nil,
\* else the direct client
Transport(useProxy, p) ==
    IF useProxy /\ p # 0 THEN getProxyDialer(proxies[p]) ELSE "direct"

\* the proxy of one invocation: if useProxy { proxy = getBestProxy() }
Selection(useProxy) == IF useProxy THEN getBestProxy(proxies) ELSE {0}

\* makeRequest, the upstream call fails: release, back off, next invocation
MakeRequestRetry ==
    /\ pc = "makeRequest"
    /\ ~Exhausted(attempt, retries)
    /\ \E p \in Selection(UseProxy(attempt, proxies)), res \in CallResults :
          /\ Failed(res)
          /\ log' = Append(log,
                Entry(attempt, UseProxy(attempt, proxies), p,
                      Transport(UseProxy(attempt, proxies), p),
                      IF res.err THEN "transportError" ELSE "response",
                      res.status, Backoff(attempt, retries)))
    /\ attempt' = NextAttempt(attempt)
    /\ UNCHANGED <<mainPc, retries, proxies, fetch, dial, auth, pc, uri, response, ctx>>

\* makeRequest, the upstream call answers: return resp
MakeRequestSuccess ==
    /\ pc = "makeRequest"
    /\ ~Exhausted(attempt, retries)
    /\ \E p \in Selection(UseProxy(attempt, proxies)), res \in CallResults :
          /\ ~Failed(res)
          /\ log' = Append(log,
                Entry(attempt, UseProxy(attempt, proxies), p,
                      Transport(UseProxy(attempt, proxies), p),
                      IF res.err THEN "transportError" ELSE "response",
                      res.status, 0))
          /\ response' = [status |-> res.status, origin |-> "upstream",
                          attempt |-> attempt]
    /\ pc' = "returned"
    /\ UNCHANGED <<mainPc, retries, proxies, fetch, dial, auth, uri, attempt, ctx>>

\* func makeRequest(ctx, attempt): one invocation, up to its return or its
\* recursive call
makeRequest ==
    \/ MakeRequestExhausted
    \/ MakeRequestDialerError
    \/ MakeRequestRetry
    \/ MakeRequestSuccess

\* requestHandler after makeRequest returned: status, body and headers go to ctx
HandlerRespond ==
    /\ pc = "returned"
    /\ ctx' = response
    /\ pc' = "done"
    /\ UNCHANGED <<mainPc, retries, proxies, fetch, dial, auth, uri, attempt, response, log>>

\* the handler returns; the server takes the next request
NextRequest ==
    /\ pc = "done"
    /\ pc' = "idle"
    /\ uri' = <<>>
    /\ attempt' = 0
    /\ response' = NoResponse
    /\ ctx' = NoResponse
    /\ log' = <<>>
    /\ auth' = [auth EXCEPT !.header = ""]
    /\ UNCHANGED <<mainPc, retries, proxies, fetch, dial>>

Serve == RequestHandler \/ makeRequest \/ HandlerRespond \/ NextRequest

-----------------------------------------------------------------------------
(* httpConnectDialer.Dial: one call, from net.DialTimeout to its return.  The
   proxy's status line is a sequence of characters, searched as
   strings.Contains searches it. *)

\* strings.Contains(s, sub)
Contains(s, sub) ==
    \E k \in 0..(Len(s) - Len(sub)) : SubSeq(s, k + 1, k + Len(sub)) = sub

\* a status check that accepts every line
HasSuccessCode_Always(line) == TRUE

\* strings.Contains(response, "200")
HasSuccessCode(line) == Contains(line, <<"2", "0", "0">>)

LineChars == {"2", "0", "4"}

\* what reader.ReadString can return for the status line
StatusLines == SeqsUpTo(LineChars, MaxLine)

\* what reader.ReadString can return for a header line
HeaderLines == {"\r\n", "Via: proxy\r\n"}

dialFrame == <<mainPc, retries, proxies, handlerVars, fetch, auth>>

\* conn, err := net.DialTimeout("tcp", d.proxyAddr, d.timeout)
DialConnect ==
    /\ dial.pc = "idle"
    /\ \E ok \in BOOLEAN :
          dial' = IF ok
                  THEN [dial EXCEPT !.pc = "write", !.conn = "open"]
                  ELSE [dial EXCEPT !.pc = "done", !.ret = "error",
                                    !.failed = "dial"]
    /\ UNCHANGED dialFrame

\* conn.Write([]byte(connectReq))
DialWrite ==
    /\ dial.pc = "write"
    /\ \E ok \in BOOLEAN :
          dial' = IF ok
                  THEN [dial EXCEPT !.pc = "status"]
                  ELSE [dial EXCEPT !.pc = "done", !.conn = "closed",
                                    !.ret = "error", !.failed = "write"]
    /\ UNCHANGED dialFrame

\* response, err := reader.ReadString('\n'), and the check of the status line
DialReadStatus ==
    /\ dial.pc = "status"
    /\ \/ dial' = [dial EXCEPT !.pc = "done", !.conn = "closed",
                               !.ret = "error", !.status = "error",
                               !.failed = "status"]
       \/ \E line \in StatusLines :
             dial' = IF ~HasSuccessCode(line)
                     THEN [dial EXCEPT !.pc = "done", !.conn = "closed",
                                       !.ret = "error", !.status = "read",
                                       !.line = line]
                     ELSE [dial EXCEPT !.pc = "headers", !.status = "read",
                                       !.line = line]
    /\ UNCHANGED dialFrame

\* one turn of the header loop: if err != nil || line == "\r\n" { break }, and
\* after the loop return conn, nil
DialReadHeader ==
    /\ dial.pc = "headers"
    /\ \/ dial' = [dial EXCEPT !.pc = "done", !.ret = "conn",
                               !.failed = "header"]
       \/ \E line \in HeaderLines :
             IF line = "\r\n"
             THEN dial' = [dial EXCEPT !.pc = "done", !.ret = "conn",
                                      !.blank = TRUE]
             ELSE /\ dial.headers < MaxHeaderLines
                  /\ dial' = [dial EXCEPT !.headers = dial.headers + 1]
    /\ UNCHANGED dialFrame

\* the next call of Dial
DialAgain ==
    /\ dial.pc = "done"
    /\ dial' = NoDial
    /\ UNCHANGED dialFrame

\* func (d *httpConnectDialer) Dial(network, addr string) (net.Conn, error)
Dial == DialConnect \/ DialWrite \/ DialReadStatus \/ DialReadHeader \/ DialAgain

-----------------------------------------------------------------------------
(* Specifications *)

Next == ReadEnv \/ loadProxiesFromGeoNode(ExecDirectories) \/ Serve

\* the program, with directory answers drawn from ExecDirectories
Spec == Init /\ [][Next]_vars

\* every blocking step of makeRequest is bounded (dial, read and write timeouts,
\* a finite sleep), so an invocation that has started is carried through
LiveSpec == Spec /\ WF_vars(makeRequest)

\* the startup load alone, with directory answers drawn from Directories
PoolInit ==
    /\ mainPc = "load"
    /\ retries = DefaultRetries
    /\ proxies = <<>>
    /\ pc = "idle"
    /\ uri = <<>>
    /\ attempt = 0
    /\ response = NoResponse
    /\ ctx = NoResponse
    /\ log = <<>>
    /\ fetch = NoFetch
    /\ auth = [key |-> "", header |-> ""]
    /\ dial = NoDial

PoolNext == loadProxiesFromGeoNode(Directories)

PoolSpec == PoolInit /\ [][PoolNext]_vars

\* the process kept running: whatever step it can take, it takes one
RunSpec == Spec /\ WF_vars(Next)

\* loadProxiesFromGeoNode run on a pool an earlier run left.  main never calls
\* it a second time; this is the function as a refresh would call it.
ReloadInit ==
    /\ mainPc = "load"
    /\ retries = DefaultRetries
    /\ proxies \in {LoadedPool(d) : d \in ExecDirectories} \cup {DefaultProxies}
    /\ pc = "idle"
    /\ uri = <<>>
    /\ attempt = 0
    /\ response = NoResponse
    /\ ctx = NoResponse
    /\ log = <<>>
    /\ fetch = [NoFetch EXCEPT !.loads = 1]
    /\ auth = [key |-> "", header |-> ""]
    /\ dial = NoDial

ReloadNext == loadProxiesFromGeoNode(ExecDirectories) \/ Serve

ReloadSpec == ReloadInit /\ [][ReloadNext]_vars

\* calls of httpConnectDialer.Dial on a serving process
ConnectInit ==
    /\ mainPc = "serve"
    /\ retries = DefaultRetries
    /\ proxies = DefaultProxies
    /\ pc = "idle"
    /\ uri = <<>>
    /\ attempt = 0
    /\ response = NoResponse
    /\ ctx = NoResponse
    /\ log = <<>>
    /\ fetch = [outcome |-> "connectError", data |-> <<>>, before |-> <<>>,
                loads |-> 1]
    /\ auth = [key |-> "", header |-> ""]
    /\ dial = NoDial

ConnectNext == Dial

ConnectSpec == ConnectInit /\ [][ConnectNext]_vars

\* the dialer factory on every protocol list a loaded proxy can carry: the server
\* starts serving with a pool of one directory entry that passed the filter
DialerInit ==
    /\ mainPc = "serve"
    /\ retries = DefaultRetries
    /\ proxies \in {LoadedPool(<<e>>) : e \in {d \in DirectoryEntries : IsGoodProxy(d)}}
    /\ pc = "idle"
    /\ uri = <<>>
    /\ attempt = 0
    /\ response = NoResponse
    /\ ctx = NoResponse
    /\ log = <<>>
    /\ fetch = NoFetch
    /\ auth = [key |-> "", header |-> ""]
    /\ dial = NoDial

DialerNext == Serve

DialerSpec == DialerInit /\ [][DialerNext]_vars

-----------------------------------------------------------------------------
(* Vocabulary of the properties *)

\* invocations of makeRequest that made a network call
NetCalls(l) == Cardinality({i \in 1..Len(l) : l[i].outcome # "dialerError"})

AllTransportErrors(l) == \A i \in 1..Len(l) : l[i].outcome = "transportError"

\* priority of the best protocol a proxy supports, whatever the list's order
HighestPriority(p) ==
    IF p.Protocols = <<>> THEN 0
    ELSE CHOOSE m \in {ProtocolPriority(x) : x \in Range(p.Protocols)} :
            \A x \in Range(p.Protocols) : ProtocolPriority(x) <= m

\* the dialer the protocol set calls for: socks5, else socks4, else CONNECT
PriorityDialer(p) ==
    IF "socks5" \in Range(p.Protocols) THEN "socks5"
    ELSE IF "socks4" \in Range(p.Protocols) THEN "socks4"
    ELSE "connect"

\* a path that is empty, has no second segment, or has an empty segment
Malformed(u) ==
    \/ PathOf(u) = <<>>
    \/ Len(SplitN2(PathOf(u))) < 2
    \/ SplitN2(PathOf(u))[1] = <<>>
    \/ SplitN2(PathOf(u))[2] = <<>>

-----------------------------------------------------------------------------
(* Properties *)

C3_FirstAttemptDirect ==
    \A i \in 1..Len(log) :
        log[i].attempt = 1 =>
            ~log[i].useProxy /\ log[i].proxy = 0 /\ log[i].dialer = "direct"

\* C3 witness: attempt 1 was made while the pool was not empty.
C3_Witness ==
    /\ Len(log) >= 1
    /\ log[1].attempt = 1
    /\ Len(proxies) > 0

\* C4: an attempt k > 1 goes through a proxy exactly when the pool is not empty;
\* with an empty pool it is direct.
C4_LaterAttemptsProxyIffPool ==
    \A i \in 1..Len(log) :
        log[i].attempt > 1 =>
            /\ (log[i].useProxy /\ log[i].proxy # 0 /\ log[i].dialer # "direct")
                  <=> Len(proxies) > 0
            /\ Len(proxies) = 0 => log[i].dialer = "direct"
            /\ log[i].proxy \in 0..Len(proxies)

\* C4 witness: attempt 2 made its call through a proxy's dialer.
C4_Witness ==
    /\ Len(log) >= 2
    /\ log[2].attempt = 2
    /\ log[2].dialer \in {"socks5", "connect"}
    /\ log[2].outcome # "dialerError"

\* C5: a failed attempt n below the last allowed one, the failure to create the
\* proxy dialer included, is followed by a sleep of n * baseDelay before the
\* next attempt.
C5_BackoffBeforeNextAttempt ==
    \A i \in 1..Len(log) :
        (log[i].outcome \in {"transportError", "dialerError"}
            /\ log[i].attempt < retries) =>
                log[i].slept = log[i].attempt * BaseDelay

\* C6 as stated, its bound: the network attempts of a request never exceed
\* maxRetries + 1, for every value RETRIES can set.
C6_AttemptsAtMostRetriesPlusOne ==
    pc = "returned" => NetCalls(log) <= retries + 1

\* C6 amended: every invocation of the executor reaches Success or Exhausted,
\* and the network attempts of a request never exceed max(maxRetries + 1, 0).
C6_BoundedExecution ==
    /\ [](NetCalls(log) <= Max(retries + 1, 0))
    /\ (pc = "makeRequest") ~> (pc = "returned")

\* C6 witness: RETRIES set maxRetries to 0 and the executor ended in Exhausted.
C6_Witness ==
    /\ retries = 0
    /\ pc = "returned"
    /\ response.origin = "synthesized"

\* C7: a malformed path (empty, no second segment, empty subdomain, empty rest)
\* is answered 400 and never enters makeRequest.
C7_MalformedPathRejected ==
    (pc # "idle" /\ Malformed(uri)) =>
        /\ pc = "done"
        /\ ctx.status = StatusBadRequest
        /\ log = <<>>
        /\ attempt = 0

\* C8: every proxy of the pool has an address, a port and a non-empty protocol
\* list drawn from http, https, socks4, socks5.
C8_PoolWellFormed ==
    \A i \in 1..Len(proxies) :
        /\ proxies[i].IP # ""
        /\ proxies[i].Port # ""
        /\ proxies[i].Protocols # <<>>
        /\ Range(proxies[i].Protocols) \subseteq RecognizedProtocols

\* C9: after a load the pool is ordered non-increasingly by the priority of the
\* best protocol each proxy supports.
C9_PoolOrderedByBestProtocol ==
    mainPc = "serve" =>
        \A i, j \in 1..Len(proxies) :
            i < j => HighestPriority(proxies[i]) >= HighestPriority(proxies[j])

\* C10: the dialer made for a proxy follows the protocol set: socks5 if listed,
\* else socks4 if listed, else HTTP CONNECT, whatever the order of the list.
C10_DialerByPriority ==
    \A i \in 1..Len(log) :
        (log[i].proxy # 0 /\ log[i].outcome # "dialerError") =>
            log[i].dialer = PriorityDialer(proxies[log[i].proxy])

-----------------------------------------------------------------------------
(* Vocabulary of the later properties *)

FailedOutcomes == {"connectError", "badStatus", "badJSON"}

Count(seq, e) == Cardinality({i \in 1..Len(seq) : seq[i] = e})

\* the filter as the directory's reader states it
Passes(e) ==
    /\ e.UpTime > 90
    /\ e.Latency < 1000
    /\ \E x \in Range(e.Protocols) : x \in {"http", "https", "socks4", "socks5"}

\* C11: a selection from a pool of length L has an index below max(1, L / 4),
\* for every L; nothing is selected exactly when the pool is empty.
C11_SelectionInTopQuartile ==
    /\ (0 \in getBestProxy(proxies)) <=> (proxies = <<>>)
    /\ \A i \in 1..Len(log) :
          log[i].useProxy =>
              log[i].proxy \in 1..Max(1, Len(proxies) \div 4)

\* C12: at startup a directory fetch that fails to connect, answers a status
\* other than 200 or answers an unparsable body leaves the pool equal to the
\* default list, which is not empty and whose entries are well formed.
C12_StartupFailureLoadsDefaults ==
    (fetch.outcome \in FailedOutcomes /\ fetch.before = <<>>) =>
        /\ mainPc = "serve"
        /\ Len(proxies) = 2
        /\ proxies[1].IP = "104.16.202.9"
        /\ proxies[2].IP = "104.21.237.193"
        /\ \A i \in 1..Len(proxies) :
              /\ proxies[i].IP # ""
              /\ proxies[i].Port = "80"
              /\ proxies[i].Protocols = <<"http">>

\* C12 witness: the directory answered a status other than 200 at startup.
C12_Witness ==
    /\ fetch.outcome = "badStatus"
    /\ fetch.loads = 1
    /\ fetch.before = <<>>
    /\ mainPc = "serve"

C14_PoolRefreshedAgain == (fetch.loads = 1) ~> (fetch.loads > 1)

\* C15: when writing the CONNECT request fails, reading the status line fails,
\* or the status line does not contain 200, Dial returns an error and no
\* connection, and the connection to the proxy is closed.
C15_RejectedConnectClosesConn ==
    (/\ dial.pc = "done"
     /\ \/ dial.failed \in {"write", "status"}
        \/ dial.status = "read" /\ ~Contains(dial.line, <<"2", "0", "0">>)) =>
        dial.ret = "error" /\ dial.conn = "closed"

\* C15 witness: the proxy answered a status line without 200.
C15_Witness ==
    /\ dial.pc = "done"
    /\ dial.status = "read"
    /\ dial.line = <<"4", "0", "4">>
    /\ dial.conn = "closed"

\* C16: with a secret configured, a request without the matching header is
\* answered 407 and never enters makeRequest.
C16_UnauthenticatedRejected ==
    (auth.key # "" /\ pc # "idle" /\ auth.header # auth.key) =>
        /\ pc = "done"
        /\ ctx.status = 407
        /\ log = <<>>
        /\ attempt = 0

C18_ConnOnlyAfterBlankLine == dial.ret = "conn" => dial.blank

\* C19: an upstream call that completes with any HTTP status ends the request
\* at that attempt: no later attempt, no backoff, and the handler hands the
\* caller that attempt's response.
C19_AnyStatusIsSuccess ==
    \A i \in 1..Len(log) :
        log[i].outcome = "response" =>
            /\ i = Len(log)
            /\ log[i].slept = 0
            /\ pc \in {"returned", "done"}
            /\ response = [status |-> log[i].status, origin |-> "upstream",
                           attempt |-> log[i].attempt]
            /\ pc = "done" => ctx = response

\* C19 witness: the second attempt, through a proxy, was answered 500 and the
\* caller got it.
C19_Witness ==
    /\ pc = "done"
    /\ Len(log) = 2
    /\ log[2].outcome = "response" /\ log[2].useProxy
    /\ ctx.status = 500 /\ ctx.origin = "upstream"

\* C20: after a successful load the pool holds every directory entry that
\* passes the filter, as often as the directory holds it, and nothing else.
C20_PoolIsPermutationOfPassing ==
    fetch.outcome = "ok" =>
        \A e \in Range(fetch.data) \cup Range(proxies) :
            Count(proxies, e) = IF Passes(e) THEN Count(fetch.data, e) ELSE 0

\* C20 witness: both directory entries passed the filter and the sort moved
\* the second one to the front.
C20_Witness ==
    /\ fetch.outcome = "ok"
    /\ Len(fetch.data) = 2
    /\ Len(proxies) = 2
    /\ proxies[1] = fetch.data[2]
    /\ proxies[1] # proxies[2]

====
